---- MODULE Spec2Model ----
(***************************************************************************)
(* PDFIntegrator (vegas/__init__.py): expectation values of a user         *)
(* function under a Gaussian distribution.                                 *)
(*                                                                         *)
(* The model follows one integrator instance through a sequence of         *)
(* __call__ invocations.  The external sampler (Integrator.__call__) is a  *)
(* nondeterministic environment: it asks the batched integrand ff for      *)
(* batches of grid coordinates and finally returns a vector of weighted    *)
(* averages.  Reals are fixed-point integers in units of 1/1000 (Milli);   *)
(* angles are multiples of 15 degrees.                                     *)
(***************************************************************************)
EXTENDS Integers, Sequences, FiniteSets, TLC

VARIABLES
    limit,      \* self.limit (Milli)
    scale,      \* self.scale (Milli)
    pdf,        \* self.pdf: the distribution's parameter layout
    buffer,     \* self._buffer
    fp,         \* self._fp
    is_dict,    \* self._is_dict
    is_bdict,   \* self._is_bdict
    norm,       \* self.norm
    mpi_rank,   \* self.mpi_rank
    pc,         \* "idle" | "sampling" (inside the sampler) | "batch" (inside ff)
    f,          \* argument f of the call in progress (or of the last call)
    nopdf,      \* argument nopdf
    mpi,        \* argument mpi
    fstd,       \* argument _fstd
    callNo,     \* number of calls made so far
    nBatches,   \* batches the sampler has got back in this call
    theta,      \* the batch of grid coordinates handed to ff
    ans,        \* ff's local list ans
    parg,       \* ff's local parg
    emitted,    \* the array ff returned last to the sampler
    nAlloc,     \* allocations of self._buffer in this call
    nBuilds,    \* constructions of parg in this call
    outcome,    \* how the last call ended
    raw,        \* the sampler's result of the last call
    result      \* the value the last call returned

vars == <<limit, scale, pdf, buffer, fp, is_dict, is_bdict, norm, mpi_rank,
          pc, f, nopdf, mpi, fstd, callNo, nBatches, theta, ans, parg,
          emitted, nAlloc, nBuilds, outcome, raw, result>>

selfVars == <<limit, scale, pdf>>
adapterVars == <<buffer, fp, is_dict, is_bdict>>
argVars == <<f, nopdf, mpi, fstd>>

----------------------------------------------------------------------------
(* Bounds of the model *)

MaxCalls == 2
MaxBatches == 2
MaxBatch == 2

----------------------------------------------------------------------------
(* Fixed-point arithmetic *)

Milli == 10 ^ 3

Abs(a) == IF a < 0 THEN -a ELSE a

Sign(a) == IF a < 0 THEN -1 ELSE 1

\* product of two Milli quantities, rounded toward zero
MulMilli(a, b) == Sign(a) * Sign(b) * ((Abs(a) * Abs(b)) \div Milli)

\* quotient of two Milli quantities, rounded toward zero
DivMilli(a, b) == Sign(a) * Sign(b) * ((Abs(a) * Milli) \div Abs(b))

\* tan of 0, 15, 30, 45, 60 degrees (Milli, rounded down)
TanTable == <<0, 267, 577, 1000, 1732>>

MaxAngle == Len(TanTable) - 1

\* numpy.tan on an angle given as a multiple of 15 degrees
Tan(a) == IF a < 0 THEN -TanTable[1 - a] ELSE TanTable[1 + a]

\* numpy.arctan of a ratio r >= 0 (Milli): the largest tabulated angle whose
\* tangent does not exceed r
ArcTan(r) == CHOOSE a \in 0..MaxAngle :
                /\ TanTable[1 + a] <= r
                /\ \A b \in 0..MaxAngle : TanTable[1 + b] <= r => b <= a

\* exp(-x^2/2)/sqrt(2 pi) at x = 0, 0.25, 0.5, ... 3.0 (Milli, rounded down)
NormalTable == <<398, 386, 352, 301, 241, 182, 129, 86, 53, 31, 17, 9, 4>>

\* numpy.exp(-(x ** 2) / 2.) / numpy.sqrt(2 * numpy.pi), x in Milli
NormalPdf(x) ==
    LET k == Abs(x) \div 250
    IN  IF k < Len(NormalTable) THEN NormalTable[1 + k] ELSE 0

RECURSIVE Prod(_)
\* numpy.prod of a vector
Prod(w) == IF w = <<>> THEN 1 ELSE w[1] * Prod(Tail(w))

----------------------------------------------------------------------------
(* The distribution self.pdf (gvar.PDF), consumed read-only *)

PdfSize == 2

Dims == 1..PdfSize

\* pdf.meanflat (Milli)
MeanFlat == <<0, 1000>>

\* rows of the inverse-whitening matrix behind pdf.x2dpflat
VecSig == <<<<1, 0>>, <<0, 2>>>>

\* pdf.pjac
Pjac == <<1, 2>>

\* pdf.x2dpflat(x) for one sample
X2dpflat(x) == [j \in Dims |-> x[1] * VecSig[1][j] + x[2] * VecSig[2][j]]

\* the three layouts of g: an array, a BufferDict, an ExtendedDict
ArrayPdf == [shape |-> "array", extend |-> FALSE]
DictPdf == [shape |-> "None", extend |-> FALSE]
ExtendedPdf == [shape |-> "None", extend |-> TRUE]

----------------------------------------------------------------------------
(* Constructor arguments *)

\* PDFIntegrator(g, limit, scale) instances the model is run on
Fixtures ==
    { [limit |-> 1000, scale |-> 500,  pdf |-> ArrayPdf],
      [limit |-> 1000, scale |-> 1000, pdf |-> DictPdf],
      [limit |-> 1000, scale |-> 2000, pdf |-> ExtendedPdf] }

\* fault variant: the grid bound taken from limit alone, numpy.arctan(self.limit)
GridLimitUnscaled == ArcTan(limit)

\* the bound _make_map builds the grid with: [-GridLimit, GridLimit]
GridLimit == ArcTan(DivMilli(limit, scale))

\* grid coordinates of one dimension
Grid == (-GridLimit)..GridLimit

\* the rows of grid coordinates the sampler draws its batches from
SampleRows == { <<-GridLimit, GridLimit>>, <<GridLimit, -1>> }

Batches == UNION { [1..n -> SampleRows] : n \in 1..MaxBatch }

----------------------------------------------------------------------------
(* User functions f(p) and the pre-flattened override _fstd(p) *)

Fns == {"none", "root", "moments", "fields", "bfields"}

Overrides == {"none", "flat"}

Args(fn, np, m, ov) == [f |-> fn, nopdf |-> np, mpi |-> m, fstd |-> ov]

\* the argument lists __call__ is invoked with: every function with and
\* without the density, and some calls with mpi=True or with an override
CallArgs ==
    { Args(fn, np, FALSE, "none") : fn \in Fns, np \in BOOLEAN }
    \cup { Args("moments", FALSE, TRUE, "none"),
           Args("none", TRUE, TRUE, "none"),
           Args("none", FALSE, FALSE, "flat"),
           Args("none", TRUE, FALSE, "flat"),
           Args("root", FALSE, TRUE, "flat") }

Output(kind, shape, keys, vals) ==
    [kind |-> kind, shape |-> shape, keys |-> keys, vals |-> vals]

\* fp = [] when f is None
EmptyList == Output("array", <<0>>, <<>>, <<>>)

\* "root" is defined for p[0] >= 0 only and raises otherwise
Raises(fn, p) == fn = "root" /\ p[1] < 0

\* the value f(p) returns: a number, an array, a dict or a BufferDict
\* (named fields are numbered: 1 for 'a', 2 for 'b')
UserFn(fn, p) ==
    LET u == p[1] \div 250
        v == p[2] \div 500
    IN  CASE fn = "root"    -> Output("scalar", <<>>, <<>>, <<u>>)
          [] fn = "moments" -> Output("array", <<2>>, <<>>, <<v, v * v>>)
          [] fn = "fields"  -> Output("dict", <<>>, <<2, 1>>, <<u, v>>)
          [] fn = "bfields" -> Output("bdict", <<>>, <<2, 1>>, <<u, v>>)

\* _fstd(p): already a flat array
FlatFn(p) == <<1, p[1] \div 250>>

----------------------------------------------------------------------------
(* gvar and numpy helpers used by fstd *)

\* hasattr(fp, 'keys')
HasKeys(out) == out.kind \in {"dict", "bdict"}

\* fp[key]
ValueAt(out, key) ==
    out.vals[CHOOSE k \in 1..Len(out.keys) : out.keys[k] = key]

\* gvar.BufferDict(fp): a BufferDict keeps its layout, a plain dict is laid
\* out by sorted key
BufferDictOf(out) ==
    LET ks == IF out.kind = "bdict" THEN out.keys
              ELSE SortSeq(out.keys, LAMBDA a, b : a < b)
    IN  [keys |-> ks, buf |-> [k \in 1..Len(ks) |-> ValueAt(out, ks[k])]]

\* the layout kept in self._fp
Template(tag, shape, keys) == [tag |-> tag, shape |-> shape, keys |-> keys]

UnsetFp == Template("unset", <<>>, <<>>)

\* numpy.asarray(fp) / gvar.BufferDict(fp), values dropped: only the layout
\* of self._fp is ever read
TemplateOf(out) ==
    IF HasKeys(out) THEN Template("BufferDict", <<>>, BufferDictOf(out).keys)
    ELSE Template("ndarray", out.shape, <<>>)

RECURSIVE SizeOf(_)
\* numpy size of a shape
SizeOf(shape) == IF shape = <<>> THEN 1 ELSE shape[1] * SizeOf(Tail(shape))

\* self._fp.buf.size / self._fp.size
TemplateSize(t) == IF t.tag = "BufferDict" THEN Len(t.keys) ELSE SizeOf(t.shape)

\* the flat values assigned to the buffer's function slots
FlatOf(out, isdict, isbdict) ==
    IF isbdict = "true" THEN out.vals
    ELSE IF isdict = "true" THEN BufferDictOf(out).buf
    ELSE out.vals

Buffer(tag, id, data) == [tag |-> tag, id |-> id, data |-> data]

UnsetBuffer == Buffer("unset", 0, <<>>)

NoneBuffer == Buffer("None", 0, <<>>)

\* numpy.empty(n, float), with slot 0 set to 1. when the density is included
NewBufferData(bufsize, np) ==
    IF np THEN [k \in 1..bufsize |-> 0]
    ELSE [k \in 1..(bufsize + 1) |-> IF k = 1 THEN 1 ELSE 0]

\* the first slot fstd writes the function values to
Offset(np) == IF np THEN 0 ELSE 1

\* whether numpy accepts data[off:] = flat (same length, or one value broadcast)
SliceFits(data, off, flat) == Len(flat) = Len(data) - off \/ Len(flat) = 1

\* data after data[off:] = flat
AssignSlice(data, off, flat) ==
    [k \in 1..Len(data) |->
        IF k <= off THEN data[k]
        ELSE IF Len(flat) = 1 THEN flat[1] ELSE flat[k - off]]

----------------------------------------------------------------------------
(* _expval_tan.ff: the per-sample quantities *)

\* x = self.scale * tan_theta, one sample
XOf(row) == [d \in Dims |-> MulMilli(scale, Tan(row[d]))]

\* jac = self.scale * (tan_theta ** 2 + 1.)
JacOf(row) ==
    [d \in Dims |-> MulMilli(scale, MulMilli(Tan(row[d]), Tan(row[d])) + Milli)]

\* pdf: the per-dimension weights of one sample
PdfOf(row, np) ==
    [d \in Dims |->
        IF np THEN JacOf(row)[d] * Pjac[d]
        ELSE MulMilli(JacOf(row)[d], NormalPdf(XOf(row)[d]))]

\* p = self.pdf.meanflat + dpi
POf(row) == [d \in Dims |-> MeanFlat[d] + X2dpflat(XOf(row))[d]]

\* fault variant: the weight of the first dimension only, pdfi[0]
FirstWeight(pdfi) == pdfi[1]

\* numpy.prod(pdfi)
SampleWeight(pdfi) == Prod(pdfi)

Parg(kind, id, buf) == [kind |-> kind, id |-> id, buf |-> buf]

\* parg = None
NoParg == Parg("None", 0, <<>>)

\* the structure line 367-373 builds for this distribution
PargKind ==
    IF pdf.shape = "None"
    THEN (IF pdf.extend THEN "ExtendedDict" ELSE "BufferDict")
    ELSE "ndarray"

\* fault variant: parg rebuilt for every sample
PargAlwaysMissing(pa) == TRUE

\* if parg is None
PargMissing(pa) == pa.kind = "None"

\* parg after lines 366-378 for a sample with parameters p: built when
\* missing, otherwise the same object with its buffer overwritten
NextParg(pa, p) ==
    IF PargMissing(pa) THEN Parg(PargKind, nBuilds + 1, p)
    ELSE Parg(pa.kind, pa.id, p)

\* fault variant: ans.append(f(parg)), the shared buffer itself
RowAlias(data, w) == [alias |-> TRUE, data |-> data]

\* f(parg) * numpy.prod(pdfi): a new array, never a view of the array f
\* returned
RowOf(data, w) == [alias |-> FALSE, data |-> [k \in 1..Len(data) |-> data[k] * w]]

\* what a row of ans holds when read: an alias reads the shared buffer
RowValue(row, buf) == IF row.alias THEN buf.data ELSE row.data

----------------------------------------------------------------------------
(* __call__.fstd: the adapter closure *)

\* fault variant: the setup block run on every evaluation
SetupAlways(buf) == TRUE

\* if self._buffer is None
NeedsSetup(buf) == buf.tag = "None"

\* the adapter's state after fstd(p) got the output out from f: lines 273-295
FstdStep(out) ==
    LET setup == NeedsSetup(buffer)
        isd   == IF setup THEN (IF HasKeys(out) THEN "true" ELSE "false")
                 ELSE is_dict
        isb   == IF setup
                 THEN (IF out.kind = "bdict" THEN "true" ELSE "false")
                 ELSE is_bdict
        tmpl  == IF setup THEN TemplateOf(out) ELSE fp
        data0 == IF setup THEN NewBufferData(TemplateSize(tmpl), nopdf)
                 ELSE buffer.data
        id    == IF setup THEN nAlloc + 1 ELSE buffer.id
        flat  == FlatOf(out, isd, isb)
        fits  == buffer.tag # "unset" /\ SliceFits(data0, Offset(nopdf), flat)
    IN  [ok       |-> fits,
         alloc    |-> IF setup THEN 1 ELSE 0,
         is_dict  |-> isd,
         is_bdict |-> isb,
         fp       |-> tmpl,
         buffer   |-> Buffer("arr", id,
                        IF fits THEN AssignSlice(data0, Offset(nopdf), flat)
                        ELSE data0)]

\* fp = [] if f is None else f(p)
FOut(p) == IF f = "none" THEN EmptyList ELSE UserFn(f, p)

----------------------------------------------------------------------------
(* Result marshalling: _RAvgWrapper, _RAvgArrayWrapper, _RAvgDictWrapper *)

RECURSIVE Gcd(_, _)
Gcd(a, b) == IF b = 0 THEN a ELSE Gcd(b, a % b)

\* a moment taken over unchanged: the rational a/1
Unchanged(a) == <<a, 1>>

\* the quotient a / b of two positive averages, as a reduced fraction
Quot(a, b) == <<a \div Gcd(a, b), b \div Gcd(a, b)>>

\* fault variant: the function moments returned without the division by slot 0
MomentsUndivided(r, np) ==
    IF np THEN [k \in 1..Len(r) |-> Unchanged(r[k])]
    ELSE [k \in 1..(Len(r) - 1) |-> Unchanged(r[k + 1])]

\* results if nopdf else (results[1:] / results[0])
Moments(r, np) ==
    IF np THEN [k \in 1..Len(r) |-> Unchanged(r[k])]
    ELSE [k \in 1..(Len(r) - 1) |-> Quot(r[k + 1], r[1])]

\* results[0] if nopdf else (results[1] / results[0])
ScalarMoment(r, np) == IF np THEN Unchanged(r[1]) ELSE Quot(r[2], r[1])

Result(kind, shape, keys, vals, results) ==
    [kind |-> kind, shape |-> shape, keys |-> keys, vals |-> vals,
     results |-> results]

NoResult == Result("none", <<>>, <<>>, <<>>, <<>>)

\* obj.flat = m on an array of n elements: numpy repeats m when it is short
FlatAssign(n, m) == [k \in 1..n |-> m[((k - 1) % Len(m)) + 1]]

\* whether the wrapper lines 310-315 pick can take the sampler's result r
MarshalFits(t, r, np) ==
    IF t.tag = "BufferDict" THEN Len(Moments(r, np)) = Len(t.keys)
    ELSE IF t.shape # <<>> THEN Len(Moments(r, np)) > 0 \/ SizeOf(t.shape) = 0
    ELSE Len(r) >= (IF np THEN 1 ELSE 2)

\* lines 310-315: the wrapper picked by self._fp.shape
Marshal(t, r, np) ==
    IF t.tag = "BufferDict"
    THEN Result("RAvgDictWrapper", <<>>, t.keys, Moments(r, np), r)
    ELSE IF t.shape # <<>>
    THEN Result("RAvgArrayWrapper", t.shape, <<>>,
                FlatAssign(SizeOf(t.shape), Moments(r, np)), r)
    ELSE Result("RAvgWrapper", <<>>, <<>>, <<ScalarMoment(r, np)>>, r)

Norm(tag, v) == [tag |-> tag, v |-> v]

UnsetNorm == Norm("unset", 0)

\* fault variant: norm taken from slot 0 whether or not the density is included
NormAlwaysSlotZero(r, np) == Norm("val", r[1])

\* None if nopdf else results[0]
NormOf(r, np) == IF np THEN Norm("None", 0) ELSE Norm("val", r[1])

----------------------------------------------------------------------------
(* The external sampler *)

\* the process's MPI rank (MPIintegrand.rank)
CommRank == 1

\* the weighted averages the sampler may return for rows of n slots; slot 0
\* integrates a positive weight and is positive
RawResults(n) == { SubSeq(<<2, 3, 5>>, 1, n), SubSeq(<<3, 6, 4>>, 1, n) }

----------------------------------------------------------------------------
(* Initial state: the instance after __init__ *)

Init ==
    /\ \E fx \in Fixtures :
          /\ limit = Abs(fx.limit)
          /\ scale = fx.scale
          /\ pdf = fx.pdf
    /\ buffer = UnsetBuffer
    /\ fp = UnsetFp
    /\ is_dict = "unset"
    /\ is_bdict = "unset"
    /\ norm = UnsetNorm
    /\ mpi_rank = 0
    /\ pc = "idle"
    /\ f = "none"
    /\ nopdf = FALSE
    /\ mpi = FALSE
    /\ fstd = "none"
    /\ callNo = 0
    /\ nBatches = 0
    /\ theta = <<>>
    /\ ans = <<>>
    /\ parg = NoParg
    /\ emitted = <<>>
    /\ nAlloc = 0
    /\ nBuilds = 0
    /\ outcome = "none"
    /\ raw = <<>>
    /\ result = NoResult

----------------------------------------------------------------------------
(* __call__ *)

\* fault variant: the test of nopdf inverted
NoIntegrandInverted(fn, np, ov) == ~np /\ fn = "none" /\ ov = "none"

\* line 266: nothing to integrate
NoIntegrand(fn, np, ov) == np /\ fn = "none" /\ ov = "none"

\* fault variant: the buffer reset only while none is allocated yet
BufferKeptIfSet(buf, ov) == IF buf.tag = "arr" THEN buf ELSE NoneBuffer

\* fault variant: the buffer reset on every call, override or not
BufferReset(buf, ov) == NoneBuffer

\* lines 268-269: self._buffer at the start of a call
BufferAtCall(buf, ov) == IF ov = "none" THEN NoneBuffer ELSE buf

\* lines 299-303: self.mpi_rank after the integrand is wrapped
RankAtCall(rank, m) == IF m THEN CommRank ELSE rank

\* __call__ raises ValueError at line 267
CallRejected(fn, np, m, ov) ==
    /\ pc = "idle"
    /\ callNo < MaxCalls
    /\ NoIntegrand(fn, np, ov)
    /\ callNo' = callNo + 1
    /\ f' = fn /\ nopdf' = np /\ mpi' = m /\ fstd' = ov
    /\ outcome' = "ValueError"
    /\ raw' = <<>>
    /\ result' = NoResult
    /\ nBatches' = 0 /\ nAlloc' = 0 /\ nBuilds' = 0
    /\ UNCHANGED <<selfVars, adapterVars, norm, mpi_rank, pc, theta, ans,
                   parg, emitted>>

\* __call__ up to line 304, where the sampler takes over
CallStart(fn, np, m, ov) ==
    /\ pc = "idle"
    /\ callNo < MaxCalls
    /\ ~NoIntegrand(fn, np, ov)
    /\ callNo' = callNo + 1
    /\ f' = fn /\ nopdf' = np /\ mpi' = m /\ fstd' = ov
    /\ buffer' = BufferAtCall(buffer, ov)
    /\ mpi_rank' = RankAtCall(mpi_rank, m)
    /\ pc' = "sampling"
    /\ outcome' = "running"
    /\ raw' = <<>>
    /\ result' = NoResult
    /\ nBatches' = 0 /\ nAlloc' = 0 /\ nBuilds' = 0
    /\ theta' = <<>> /\ ans' = <<>> /\ parg' = NoParg /\ emitted' = <<>>
    /\ UNCHANGED <<selfVars, fp, is_dict, is_bdict, norm>>

\* the sampler calls ff(theta) with a batch of grid coordinates: lines 353-363
\* (the sampler evaluates the integrand on at least one batch of at least
\* one sample before it returns)
StartBatch(b) ==
    /\ pc = "sampling"
    /\ nBatches < MaxBatches
    /\ theta' = b
    /\ ans' = <<>>
    /\ parg' = NoParg
    /\ emitted' = <<>>
    /\ pc' = "batch"
    /\ UNCHANGED <<selfVars, adapterVars, norm, mpi_rank, argVars, callNo,
                   nBatches, nAlloc, nBuilds, outcome, raw, result>>

\* the sample the loop of line 364 is at
Current == theta[Len(ans) + 1]

\* whether evaluating the per-sample function on the current sample raises
EvalRaises ==
    IF fstd # "none" THEN FALSE
    ELSE \/ (f # "none" /\ Raises(f, POf(Current)))
         \/ ~FstdStep(FOut(POf(Current))).ok

\* one pass of the loop, lines 364-379, with the adapter as per-sample function
EvalAdapter ==
    /\ pc = "batch"
    /\ Len(ans) < Len(theta)
    /\ fstd = "none"
    /\ ~EvalRaises
    /\ LET p    == POf(Current)
           step == FstdStep(FOut(p))
       IN  /\ parg' = NextParg(parg, p)
           /\ nBuilds' = IF PargMissing(parg) THEN nBuilds + 1 ELSE nBuilds
           /\ buffer' = step.buffer
           /\ fp' = step.fp
           /\ is_dict' = step.is_dict
           /\ is_bdict' = step.is_bdict
           /\ nAlloc' = nAlloc + step.alloc
           /\ ans' = Append(ans, RowOf(step.buffer.data,
                                       SampleWeight(PdfOf(Current, nopdf))))
    /\ UNCHANGED <<selfVars, norm, mpi_rank, pc, argVars, callNo, nBatches,
                   theta, emitted, outcome, raw, result>>

\* one pass of the loop with the override _fstd as per-sample function
EvalOverride ==
    /\ pc = "batch"
    /\ Len(ans) < Len(theta)
    /\ fstd # "none"
    /\ LET p == POf(Current)
       IN  /\ parg' = NextParg(parg, p)
           /\ nBuilds' = IF PargMissing(parg) THEN nBuilds + 1 ELSE nBuilds
           /\ ans' = Append(ans, RowOf(FlatFn(p),
                                       SampleWeight(PdfOf(Current, nopdf))))
    /\ UNCHANGED <<selfVars, adapterVars, norm, mpi_rank, pc, argVars, callNo,
                   nBatches, nAlloc, theta, emitted, outcome, raw, result>>

\* fault variant: the exception swallowed, an empty row appended, the loop goes on
AbortSwallowed ==
    /\ ans' = Append(ans, RowOf(<<>>, 1))
    /\ parg' = NextParg(parg, POf(Current))
    /\ nBuilds' = IF PargMissing(parg) THEN nBuilds + 1 ELSE nBuilds
    /\ UNCHANGED <<selfVars, adapterVars, norm, mpi_rank, pc, argVars, callNo,
                   nBatches, nAlloc, theta, emitted, outcome, raw, result>>

\* the exception leaves ff, the sampler and __call__: the call is over
Abort ==
    /\ pc' = "idle"
    /\ outcome' = "UserError"
    /\ theta' = <<>> /\ ans' = <<>> /\ parg' = NoParg /\ emitted' = <<>>
    /\ nBuilds' = IF PargMissing(parg) THEN nBuilds + 1 ELSE nBuilds
    /\ UNCHANGED <<selfVars, adapterVars, norm, mpi_rank, argVars, callNo,
                   nBatches, nAlloc, raw, result>>

\* the per-sample function raises at line 379 (f(p) at line 272)
EvalFail ==
    /\ pc = "batch"
    /\ Len(ans) < Len(theta)
    /\ EvalRaises
    /\ Abort

\* return numpy.array(ans): line 380
ReturnBatch ==
    /\ pc = "batch"
    /\ Len(ans) = Len(theta)
    /\ emitted' = [k \in 1..Len(ans) |-> RowValue(ans[k], buffer)]
    /\ ans' = <<>>
    /\ parg' = NoParg
    /\ nBatches' = nBatches + 1
    /\ pc' = "sampling"
    /\ UNCHANGED <<selfVars, adapterVars, norm, mpi_rank, argVars, callNo,
                   theta, nAlloc, nBuilds, outcome, raw, result>>

\* the length of the rows the sampler got
RowLen == Len(emitted[1])

\* the sampler returns r and the override call returns it: lines 304-306
FinishOverride ==
    /\ pc = "sampling"
    /\ nBatches >= 1
    /\ fstd # "none"
    /\ \E r \in RawResults(RowLen) :
          /\ raw' = r
          /\ result' = Result("RAvg", <<>>, <<>>, <<>>, r)
    /\ outcome' = "ok"
    /\ pc' = "idle"
    /\ theta' = <<>> /\ emitted' = <<>>
    /\ UNCHANGED <<selfVars, adapterVars, norm, mpi_rank, argVars, callNo,
                   nBatches, ans, parg, nAlloc, nBuilds>>

\* the sampler returns r and __call__ marshals it: lines 304, 307-315
FinishMarshal ==
    /\ pc = "sampling"
    /\ nBatches >= 1
    /\ fstd = "none"
    /\ \E r \in RawResults(RowLen) :
          /\ raw' = r
          /\ norm' = NormOf(r, nopdf)
          /\ IF MarshalFits(fp, r, nopdf)
             THEN result' = Marshal(fp, r, nopdf) /\ outcome' = "ok"
             ELSE result' = NoResult /\ outcome' = "MarshalError"
    /\ pc' = "idle"
    /\ theta' = <<>> /\ emitted' = <<>>
    /\ UNCHANGED <<selfVars, adapterVars, mpi_rank, argVars, callNo,
                   nBatches, ans, parg, nAlloc, nBuilds>>

Next ==
    \/ \E a \in CallArgs : CallRejected(a.f, a.nopdf, a.mpi, a.fstd)
    \/ \E a \in CallArgs : CallStart(a.f, a.nopdf, a.mpi, a.fstd)
    \/ \E b \in Batches : StartBatch(b)
    \/ EvalAdapter
    \/ EvalOverride
    \/ EvalFail
    \/ ReturnBatch
    \/ FinishOverride
    \/ FinishMarshal

Spec == Init /\ [][Next]_vars

----------------------------------------------------------------------------
(* Properties *)

\* the step is an invocation of __call__
IsCall == callNo' = callNo + 1

\* the output f gives (every output of one f has one layout)
SampleOutput == FOut(MeanFlat)

\* the flattened components of an output, in the slot order of its layout
ExpectedFlat(out) == IF out.kind = "dict" THEN BufferDictOf(out).buf ELSE out.vals

\* C1: a call with f None, nopdf=True and no _fstd ends with ValueError
\* before sampling begins: the sampler is not entered (pc stays "idle"), the
\* integrand is not evaluated, no result is returned, and _buffer, _fp, norm
\* and mpi_rank are what they were before the call.
C1_NoIntegrandRejected ==
    [][ (IsCall /\ f' = "none" /\ nopdf' /\ fstd' = "none")
            => /\ outcome' = "ValueError"
               /\ pc' = "idle"
               /\ nBatches' = 0
               /\ result' = NoResult
               /\ UNCHANGED <<buffer, fp, norm, mpi_rank>> ]_vars

\* a call with mpi=True rejected after an earlier call had set up the
\* adapter and norm
C1_Witness ==
    /\ outcome = "ValueError"
    /\ mpi
    /\ mpi_rank = 0
    /\ buffer.tag = "arr"
    /\ norm.tag = "val"

\* C2: in a call without override that returned, with the density included
\* the result holds one moment per slot k >= 1 of the sampler's vector r,
\* equal to r[k]/r[0]; with the density excluded it holds r[k] for every
\* k >= 0, unchanged.  (Slots are numbered from 1 here: raw[1] is r[0].)
C2_MomentsNormalized ==
    (outcome = "ok" /\ fstd = "none") =>
        IF nopdf
        THEN /\ Len(result.vals) = Len(raw)
             /\ \A k \in 1..Len(raw) : result.vals[k] = <<raw[k], 1>>
        ELSE /\ Len(result.vals) = Len(raw) - 1
             /\ \A k \in 1..(Len(raw) - 1) :
                   /\ result.vals[k][2] > 0
                   /\ result.vals[k][1] * raw[1] = raw[k + 1] * result.vals[k][2]

\* a named collection returned with the density included, by a slot 0
\* that does not divide the other slots
C2_Witness ==
    /\ outcome = "ok"
    /\ fstd = "none"
    /\ ~nopdf
    /\ result.kind = "RAvgDictWrapper"
    /\ raw = <<2, 3, 5>>

\* the result has the layout of the output of this call's f
ResultHasShapeOf(out) ==
    CASE out.kind = "scalar" -> result.kind = "RAvgWrapper"
      [] out.kind = "array"  -> /\ result.kind = "RAvgArrayWrapper"
                                /\ result.shape = out.shape
                                /\ Len(result.vals) = Len(out.vals)
      [] OTHER               -> /\ result.kind = "RAvgDictWrapper"
                                /\ Len(result.keys) = Len(out.keys)
                                /\ \A k \in 1..Len(out.keys) :
                                      \E j \in 1..Len(result.keys) :
                                         result.keys[j] = out.keys[k]

\* restoring the buffer's function slots with the template self._fp gives
\* back the output: same shape or keys, every value at its own place
RoundTrip(out) ==
    CASE out.kind \in {"scalar", "array"} ->
            /\ fp.tag = "ndarray"
            /\ fp.shape = out.shape
            /\ Len(buffer.data) = Offset(nopdf) + Len(out.vals)
            /\ \A k \in 1..Len(out.vals) :
                  buffer.data[Offset(nopdf) + k] = out.vals[k]
      [] OTHER ->
            /\ fp.tag = "BufferDict"
            /\ Len(fp.keys) = Len(out.keys)
            /\ Len(buffer.data) = Offset(nopdf) + Len(out.keys)
            /\ \A k \in 1..Len(out.keys) :
                  \E j \in 1..Len(fp.keys) :
                     /\ fp.keys[j] = out.keys[k]
                     /\ buffer.data[Offset(nopdf) + j] = out.vals[k]

\* C3: the result of a call without override has the shape of the output
\* of that call's function, whatever earlier calls left on the instance; and
\* after every evaluation of the call (the first included) the template
\* restores the flattened output to the output.
C3_ShapeRestored ==
    /\ (outcome = "ok" /\ fstd = "none") => ResultHasShapeOf(SampleOutput)
    /\ (pc = "batch" /\ fstd = "none" /\ Len(ans) >= 1)
           => RoundTrip(FOut(POf(theta[Len(ans)])))

\* a second call returns a named collection laid out by sorted key from a
\* dict built in the other order
C3_Witness ==
    /\ callNo = 2
    /\ outcome = "ok"
    /\ f = "fields"
    /\ result.kind = "RAvgDictWrapper"
    /\ result.keys = <<1, 2>>
    /\ SampleOutput.keys = <<2, 1>>

\* the product of the per-dimension weights of one sample, over all
\* PdfSize dimensions
RECURSIVE WeightOver(_, _)
WeightOver(w, d) == IF d = 0 THEN 1 ELSE w[d] * WeightOver(w, d - 1)

\* W_i of a sample
WeightOfSample(row) == WeightOver(PdfOf(row, nopdf), PdfSize)

\* the adapter's flat buffer for a sample: slot 0 holds 1 when the density
\* is included, then the flattened output
ExpectedBuffer(row) ==
    (IF nopdf THEN <<>> ELSE <<1>>) \o ExpectedFlat(FOut(POf(row)))

\* the row of a sample: every component of its flat buffer times W_i
ExpectedRow(row) ==
    [k \in 1..Len(ExpectedBuffer(row)) |->
        ExpectedBuffer(row)[k] * WeightOfSample(row)]

\* the step belongs to a call with an override: its start or a later step
InOverrideCall == fstd' # "none" /\ (IsCall \/ pc # "idle")

\* C4: a call with the override _fstd leaves _buffer, _fp, the shape flags
\* and norm as they were, at its start and at every later step; each row it
\* emits is the override's own flat output for the sample times the sample's
\* weight; and the value it returns is the sampler's result itself.
C4_OverrideBypasses ==
    [][ InOverrideCall
            => /\ UNCHANGED <<buffer, fp, is_dict, is_bdict, norm>>
               /\ (pc = "batch" /\ Len(ans') = Len(ans) + 1)
                     => RowValue(ans'[Len(ans')], buffer')
                            = [k \in 1..Len(FlatFn(POf(Current))) |->
                                  FlatFn(POf(Current))[k]
                                      * WeightOfSample(Current)]
               /\ (pc = "sampling" /\ pc' = "idle")
                     => /\ outcome' = "ok"
                        /\ result'.kind = "RAvg"
                        /\ result'.results = raw'
                        /\ result'.vals = <<>> ]_vars

\* an override call, the first call on the integrator, has returned
C4_Witness ==
    /\ callNo = 1
    /\ outcome = "ok"
    /\ fstd = "flat"
    /\ result.results = <<3, 6>>
    /\ buffer.tag = "unset"
    /\ norm.tag = "unset"

\* C5: when the user function raises on a sample, the step ends the call
\* with that failure: no result, no batch handed to the sampler; and after
\* a failed call the only step left is a new call (no later sample of the
\* batch is evaluated, the failing sample is not retried).
C5_FailFast ==
    /\ [][ (pc = "batch" /\ fstd = "none" /\ f # "none"
              /\ Len(ans) < Len(theta) /\ Raises(f, POf(Current)))
            => /\ pc' = "idle"
               /\ outcome' = "UserError"
               /\ result' = NoResult
               /\ emitted' = <<>>
                          /\ nBatches' = nBatches
               /\ callNo' = callNo ]_vars
    /\ [][ outcome = "UserError" => IsCall ]_vars

\* the function failed in the second batch of a call, after the samples of
\* the first batch had been evaluated and emitted
C5_Witness ==
    /\ outcome = "UserError"
    /\ f = "root"
    /\ nBatches = 1
    /\ buffer.tag = "arr"
    /\ pc = "idle"
    /\ result = NoResult

\* the per-sample function has been evaluated in this call
Evaluated == nBatches >= 1 \/ (pc = "batch" /\ Len(ans) >= 1)

\* C6: in a call without override the buffer is None until the first
\* evaluation, and from then on it is the one array allocated then, of
\* 1+outputs slots with the density and outputs slots without.
C6_BufferAllocatedOnce ==
    (fstd = "none" /\ outcome \in {"running", "ok"}) =>
        IF ~Evaluated
        THEN buffer = NoneBuffer /\ nAlloc = 0
        ELSE /\ nAlloc = 1
             /\ buffer.tag = "arr"
             /\ buffer.id = 1
             /\ Len(buffer.data)
                   = (IF nopdf THEN 0 ELSE 1) + Len(SampleOutput.vals)

\* the third evaluation of a call, in its second batch, with a buffer of
\* 1 + 2 slots
C6_Witness ==
    /\ pc = "batch"
    /\ fstd = "none"
    /\ ~nopdf
    /\ nBatches = 1
    /\ Len(ans) = 2
    /\ nAlloc = 1
    /\ Len(buffer.data) = 3

\* every coordinate of the batch ff has in hand lies on the grid and maps
\* to a value of magnitude at most bound
BatchWithin(bound) ==
    \A k \in 1..Len(theta) : \A d \in Dims :
        /\ theta[k][d] \in Grid
        /\ Abs(XOf(theta[k])[d]) <= bound

\* every grid coordinate maps to a value of magnitude at most bound
GridWithin(bound) == \A a \in Grid : Abs(MulMilli(scale, Tan(a))) <= bound

\* C7 as stated: x = scale*tan(theta) never exceeds scale*limit in magnitude
C7_Original == BatchWithin(MulMilli(scale, limit))

\* C7, amended: x = scale*tan(theta) never exceeds limit in magnitude, for
\* every grid coordinate theta in [-L, L], L = atan(limit/scale), and so for
\* every coordinate ff maps
C7_MappedWithinLimit == GridWithin(limit) /\ BatchWithin(limit)

\* a sample at the edge -L of the grid is being evaluated by an integrator
\* of scale 1/2
C7_Witness ==
    /\ pc = "batch"
    /\ Len(ans) >= 1
    /\ scale = 500
    /\ theta[1][1] = -GridLimit
    /\ XOf(theta[1])[1] = -866

\* C8: the array ff returns for a batch of n rows has n rows, in the order
\* of the samples; row i is the adapter's flat buffer for sample i with every
\* component times W_i, so with the density included its slot 0 is W_i.
C8_BatchRows ==
    (pc = "sampling" /\ nBatches >= 1 /\ fstd = "none") =>
        /\ Len(emitted) = Len(theta)
        /\ \A i \in 1..Len(theta) :
              /\ emitted[i] = ExpectedRow(theta[i])
              /\ Len(emitted[i]) = Len(buffer.data)
              /\ ~nopdf => emitted[i][1] = WeightOfSample(theta[i])

\* a batch of two different samples emitted for a named-collection function
\* with the density included
C8_Witness ==
    /\ pc = "sampling"
    /\ fstd = "none"
    /\ f = "fields"
    /\ ~nopdf
    /\ Len(emitted) = 2
    /\ emitted[1] # emitted[2]
    /\ emitted[1][1] # emitted[2][1]

\* C9 as stated: parg is built at most once in a call, over all its batches
C9_Original == pc # "idle" => nBuilds <= 1

\* C9, amended: parg is built once per batch (per invocation of ff), at the
\* batch's first sample; for every other sample of that batch the same
\* structure is overwritten in place with the sample's parameter vector.
C9_PargBuiltOncePerBatch ==
    /\ pc = "sampling" => nBuilds = nBatches
    /\ (pc = "batch" /\ Len(ans) = 0) => (parg = NoParg /\ nBuilds = nBatches)
    /\ (pc = "batch" /\ Len(ans) >= 1)
           => /\ nBuilds = nBatches + 1
              /\ parg.kind = PargKind
              /\ parg.id = nBatches + 1
              /\ parg.buf = POf(theta[Len(ans)])

\* the second sample of the second batch: the structure built for this
\* batch holds the second sample's parameters
C9_Witness ==
    /\ pc = "batch"
    /\ nBatches = 1
    /\ Len(ans) = 2
    /\ theta[1] # theta[2]
    /\ nBuilds = 2
    /\ parg.kind = "ExtendedDict"

\* C10: while a batch is evaluated, every row already in ans holds the
\* value computed for its own sample, whatever the shared buffer holds by
\* now: no row is a view of the buffer.
C10_RowsKeepValues ==
    (pc = "batch" /\ fstd = "none") =>
        \A i \in 1..Len(ans) :
            /\ ~ans[i].alias
            /\ RowValue(ans[i], buffer) = ExpectedRow(theta[i])

\* two rows in ans, the buffer overwritten by the second sample with values
\* other than the first sample's
C10_Witness ==
    /\ pc = "batch"
    /\ fstd = "none"
    /\ Len(ans) = 2
    /\ buffer.data = ExpectedBuffer(theta[2])
    /\ buffer.data # ExpectedBuffer(theta[1])
    /\ ans[1].data = ExpectedRow(theta[1])

\* the step is the return of a call without override that completed
CompletesPlainCall ==
    pc = "sampling" /\ pc' = "idle" /\ fstd = "none" /\ outcome' = "ok"

\* C11: norm is undefined until a call without override completes; the
\* step that completes such a call sets it to slot 0 of the sampler's result
\* if the density was included and to None if it was excluded; every other
\* step (of an override call, a rejected call, a call aborted by the user
\* function, or inside a call) leaves it unchanged.  So norm always reflects
\* the most recent call that completed without override.
C11_NormTracksLastPlainCall ==
    [][ /\ callNo = 0 => norm = UnsetNorm
        /\ CompletesPlainCall
              => norm' = (IF nopdf THEN [tag |-> "None", v |-> 0]
                          ELSE [tag |-> "val", v |-> raw'[1]])
        /\ ~CompletesPlainCall => norm' = norm ]_vars

\* an override call returned with slot 0 equal to 3 after a call without
\* override had set norm to 2
C11_Witness ==
    /\ callNo = 2
    /\ outcome = "ok"
    /\ fstd = "flat"
    /\ raw[1] = 3
    /\ norm = [tag |-> "val", v |-> 2]

====
